---- MODULE Spec2Model ----
(***************************************************************************)
(* Model of the SOL -> token swap price trackers:                          *)
(*   - the constant-product tracker (class SwapPriceTracker) and its       *)
(*     polling driver (index.ts),                                          *)
(*   - the bin-model module (price_final.ts) and its own polling loop.     *)
(* External collaborators (pool-index API, chain RPC, SDK quoting, the     *)
(* file system) answer nondeterministically.                               *)
(***************************************************************************)
EXTENDS Integers, Sequences, FiniteSets, TLC

VARIABLES
  prog,          \* which program runs: "cp" (index.ts) or "dlmm" (price_final.ts)
  pc,            \* position of main / getRealtimeSwapPrice
  field,         \* cp discovery: index of the query strategy in Fields
  offset,        \* cp discovery: offset of the next page request
  matchedPools,  \* discovery: pools accepted so far
  seenPoolIds,   \* cp discovery: identifiers accepted so far
  pool,          \* the selected pool (Null when none)
  poolState,     \* cp: what fetchPoolState returned
  result,        \* what getRealtimeSwapPrice returned (Null before it returns)
  calls,         \* chain / SDK calls issued in the current pass
  lastFetch,     \* history: how the latest page request ended
  dupSkipped,    \* history: a record was skipped in this pass as already seen
  file,          \* latest_price.json
  file0,         \* history: the file as the run found it
  saved,         \* history: results handed to completed save calls, in call order
  passes,        \* history: passes started
  delays,        \* history: delays elapsed
  thrown,        \* the error that left main's loop ("" when none)
  locals,        \* local values of the getRealtimeSwapPrice call under way
  selInput,      \* selector run: the liquidity values of the input sequence
  selOut,        \* selector run: what the two selectors returned
  selStage       \* selector run: "idle", "input" or "done"

vars == <<prog, pc, field, offset, matchedPools, seenPoolIds, pool, poolState,
          result, calls, lastFetch, dupSkipped, file, file0, saved, passes,
          delays, thrown, locals, selInput, selOut, selStage>>

driverVars == <<prog, pc, field, offset, matchedPools, seenPoolIds, pool,
                poolState, result, calls, lastFetch, dupSkipped, file, file0,
                saved, passes, delays, thrown, locals>>

selVars == <<selInput, selOut, selStage>>

(***************************************************************************)
(* Bounds of the model.                                                    *)
(***************************************************************************)
MaxRecords == 1   \* records in one pool-index response
MaxPages == 2     \* non-empty pages one query strategy is served
MaxPasses == 2    \* passes the driver is followed through
MaxSelLen == 3    \* length of the selector's input sequence

(***************************************************************************)
(* Values.                                                                 *)
(***************************************************************************)
Null == [null |-> TRUE]
Undefined == "<undefined>"

SOL_MINT == "So11111111111111111111111111111111111111112"
TOKEN == "TokenMint1111"
TOKEN_OTHER_CASE == "tOKENmINT1111"
OTHER_MINT == "OtherMint2222"

\* String.prototype.toLowerCase on the addresses of the model.
toLowerCase(s) ==
  CASE s = SOL_MINT -> "so11111111111111111111111111111111111111112"
    [] s = TOKEN -> "tokenmint1111"
    [] s = TOKEN_OTHER_CASE -> "tokenmint1111"
    [] s = OTHER_MINT -> "othermint2222"
    [] OTHER -> s

(***************************************************************************)
(* Decimals: a non-negative BigNumber is an integer part ip and the        *)
(* digits fd after the point (no trailing zero), or Infinity.              *)
(***************************************************************************)
RECURSIVE Pow10(_)
Pow10(n) == IF n = 0 THEN 1 ELSE 10 * Pow10(n - 1)

\* The width decimal digits of n, most significant first.
DigitsOf(n, width) == [i \in 1..width |-> (n \div Pow10(width - i)) % 10]

RECURSIVE DigitsToInt(_)
DigitsToInt(ds) ==
  IF ds = <<>> THEN 0
  ELSE 10 * DigitsToInt(SubSeq(ds, 1, Len(ds) - 1)) + ds[Len(ds)]

RECURSIVE DigitString(_)
DigitString(ds) ==
  IF ds = <<>> THEN "" ELSE ToString(ds[1]) \o DigitString(Tail(ds))

RECURSIVE StripZeros(_)
StripZeros(fd) ==
  IF fd # <<>> /\ fd[Len(fd)] = 0
  THEN StripZeros(SubSeq(fd, 1, Len(fd) - 1))
  ELSE fd

\* new BigNumber(n.toString()) for a non-negative integer n
BigNumber(n) == [ip |-> n, fd |-> <<>>]

Infinity == [inf |-> TRUE]

\* new BigNumber(n.toString()).dividedBy(new BigNumber(10).pow(d)): exact,
\* d being far below the 20 decimal places a quotient keeps.
DividedByPow10(n, d) ==
  [ip |-> n \div Pow10(d), fd |-> StripZeros(DigitsOf(n % Pow10(d), d))]

\* BigNumber.prototype.toFixed(dp), dp > 0: dp digits after the point,
\* rounded half up.
toFixed(x, dp) ==
  LET kept == [i \in 1..dp |-> IF i <= Len(x.fd) THEN x.fd[i] ELSE 0]
      up == Len(x.fd) > dp /\ x.fd[dp + 1] >= 5
      k == DigitsToInt(kept) + (IF up THEN 1 ELSE 0)
  IN  ToString(x.ip + k \div Pow10(dp)) \o "."
        \o DigitString(DigitsOf(k % Pow10(dp), dp))

\* Decimal places a BigNumber quotient keeps (the library's default).
DECIMAL_PLACES == 20

\* The first n digits after the point of r / d, for 0 <= r < d.
RECURSIVE LongDivision(_, _, _)
LongDivision(r, d, n) ==
  IF n = 0 THEN <<>>
  ELSE <<(10 * r) \div d>> \o LongDivision((10 * r) % d, d, n - 1)

\* A digit sequence plus one unit in its last place.
RECURSIVE Increment(_)
Increment(ds) ==
  IF ds = <<>> THEN [carry |-> 1, digits |-> <<>>]
  ELSE LET front == SubSeq(ds, 1, Len(ds) - 1)
           last == ds[Len(ds)]
       IN  IF last < 9 THEN [carry |-> 0, digits |-> Append(front, last + 1)]
           ELSE [carry |-> Increment(front).carry,
                 digits |-> Append(Increment(front).digits, 0)]

\* new BigNumber(1).dividedBy(x): the quotient rounded half up to
\* DECIMAL_PLACES places; Infinity when x is zero.
OneDividedBy(x) ==
  LET k == Len(x.fd)
      d == x.ip * Pow10(k) + DigitsToInt(x.fd)
      n == Pow10(k)
  IN  IF d = 0 THEN Infinity
      ELSE LET q == LongDivision(n % d, d, DECIMAL_PLACES + 1)
               kept == SubSeq(q, 1, DECIMAL_PLACES)
               r == IF q[DECIMAL_PLACES + 1] >= 5 THEN Increment(kept)
                    ELSE [carry |-> 0, digits |-> kept]
           IN  [ip |-> n \div d + r.carry, fd |-> StripZeros(r.digits)]

(***************************************************************************)
(* Numbers: a JS number is NaN or a value.                                 *)
(***************************************************************************)
NaN == [nan |-> TRUE, v |-> 0]
Num(n) == [nan |-> FALSE, v |-> n]

\* a > b on JS numbers: false as soon as one side is NaN.
Gt(a, b) == ~a.nan /\ ~b.nan /\ a.v > b.v

\* a - b on JS numbers.
Minus(a, b) == IF a.nan \/ b.nan THEN NaN ELSE Num(a.v - b.v)

\* The liquidity / TVL strings of the model.
NumericStrings == {"0", "100", "100.0", "500"}
TvlStrings == NumericStrings \cup {"", "abc"}
TvlValues == TvlStrings \cup {Undefined}

\* parseFloat on the strings of the model.
parseFloat(s) ==
  CASE s = "0" -> Num(0)
    [] s = "100" -> Num(100)
    [] s = "100.0" -> Num(100)
    [] s = "500" -> Num(500)
    [] s = "700" -> Num(700)
    [] s = "900" -> Num(900)
    [] OTHER -> NaN

\* x || "0": undefined and the empty string are falsy.
OrZero(s) == IF s = Undefined \/ s = "" THEN "0" ELSE s

(***************************************************************************)
(* PoolSelector, constant-product tracker: reduce with a strict ">".       *)
(***************************************************************************)
RECURSIVE ReduceTvl(_, _, _)
ReduceTvl(pools, i, max) ==
  IF i > Len(pools) THEN max
  ELSE ReduceTvl(pools, i + 1,
         IF Gt(parseFloat(OrZero(pools[i].tvl)), parseFloat(OrZero(max.tvl)))
         THEN pools[i] ELSE max)

RECURSIVE ReduceTvlGeq(_, _, _)
ReduceTvlGeq(pools, i, max) ==
  IF i > Len(pools) THEN max
  ELSE ReduceTvlGeq(pools, i + 1,
         IF ~Gt(parseFloat(OrZero(max.tvl)), parseFloat(OrZero(pools[i].tvl)))
         THEN pools[i] ELSE max)

\* findHighestTvlPool with ">=" in place of ">": the last maximum wins.
findHighestTvlPoolGeq(pools) ==
  IF Len(pools) > 0 THEN ReduceTvlGeq(pools, 2, pools[1]) ELSE Null

findHighestTvlPool(pools) ==
  IF Len(pools) > 0 THEN ReduceTvl(pools, 2, pools[1]) ELSE Null

(***************************************************************************)
(* PoolSelector, bin-model module: sort descending, take the head.         *)
(***************************************************************************)
\* The comparator of the sort; a NaN comparator result counts as +0.
CompareLiquidity(a, b) ==
  LET d == Minus(parseFloat(OrZero(b.liquidity)), parseFloat(OrZero(a.liquidity)))
  IN  IF d.nan THEN 0 ELSE d.v

\* Whether the comparator is a consistent comparator for the elements.
ConsistentComparator(pools) ==
  LET I == 1..Len(pools)
      c(i, j) == CompareLiquidity(pools[i], pools[j])
  IN  \A i, j, k \in I :
        /\ (c(i, j) = 0 /\ c(j, k) = 0) => c(i, k) = 0
        /\ (c(i, j) < 0 /\ c(j, k) < 0) => c(i, k) < 0
        /\ (c(i, j) > 0 /\ c(j, k) > 0) => c(i, k) > 0

\* x inserted behind every element that does not sort after it.
RECURSIVE InsertStable(_, _)
InsertStable(sorted, x) ==
  IF sorted = <<>> THEN <<x>>
  ELSE IF CompareLiquidity(sorted[1], x) > 0 THEN <<x>> \o sorted
  ELSE <<sorted[1]>> \o InsertStable(Tail(sorted), x)

RECURSIVE StableSort(_, _, _)
StableSort(pools, i, sorted) ==
  IF i > Len(pools) THEN sorted
  ELSE StableSort(pools, i + 1, InsertStable(sorted, pools[i]))

\* Array.prototype.sort: stable; with an inconsistent comparator the order
\* is implementation-defined, so any element may come first.
SortHeads(pools) ==
  IF ConsistentComparator(pools)
  THEN {StableSort(pools, 1, <<>>)[1]}
  ELSE {pools[i] : i \in 1..Len(pools)}

\* The pools findHighestLiquidityPool may return.
findHighestLiquidityPool(pools) ==
  IF Len(pools) = 0 THEN {Null} ELSE SortHeads(pools)

(***************************************************************************)
(* The selectors on arbitrary input sequences.                             *)
(***************************************************************************)
RECURSIVE SeqsUpTo(_, _)
SeqsUpTo(S, n) ==
  IF n = 0 THEN {<<>>}
  ELSE LET shorter == SeqsUpTo(S, n - 1)
       IN  shorter \cup {Append(s, x) : s \in {t \in shorter : Len(t) = n - 1}, x \in S}

\* PoolData of the constant-product index with liquidity values tvls.
TvlPools(tvls) ==
  [i \in 1..Len(tvls) |->
     [pool_address |-> ToString(i), token_a_mint |-> SOL_MINT,
      token_b_mint |-> TOKEN, tvl |-> tvls[i]]]

\* PoolData of the bin-model index with liquidity values tvls.
LiquidityPools(tvls) ==
  [i \in 1..Len(tvls) |->
     [address |-> ToString(i), mint_x |-> SOL_MINT, mint_y |-> TOKEN,
      liquidity |-> tvls[i], reserve_x_amount |-> 1, reserve_y_amount |-> 1]]

InitSelect ==
  /\ selInput \in SeqsUpTo(TvlValues, MaxSelLen)
  /\ selOut = Null
  /\ selStage = "input"

ApplySelect ==
  /\ selStage = "input"
  /\ \E head \in findHighestLiquidityPool(LiquidityPools(selInput)) :
       selOut' = [tvl |-> findHighestTvlPool(TvlPools(selInput)),
                  liquidity |-> head]
  /\ selStage' = "done"
  /\ UNCHANGED selInput

(***************************************************************************)
(* Discovery, constant-product tracker: two paginated query strategies.    *)
(***************************************************************************)
Fields == <<"token_a_mint", "token_b_mint">>
PageSize == 50

\* Records the pool index may serve; Null stands for a record that is not
\* an object (reading its pool_address raises).
PoolA ==
  [pool_address |-> "A", token_a_mint |-> TOKEN, token_b_mint |-> SOL_MINT,
   tvl |-> "100", token_a_symbol |-> "TKN", token_b_symbol |-> "SOL"]
PoolB ==
  [pool_address |-> "B", token_a_mint |-> SOL_MINT, token_b_mint |-> TOKEN,
   tvl |-> "500", token_a_symbol |-> "SOL", token_b_symbol |-> Undefined]
PoolC ==
  [pool_address |-> "C", token_a_mint |-> SOL_MINT, token_b_mint |-> OTHER_MINT,
   tvl |-> "900", token_a_symbol |-> "SOL", token_b_symbol |-> "OTH"]
PoolD ==
  [pool_address |-> "D", token_a_mint |-> OTHER_MINT, token_b_mint |-> TOKEN,
   tvl |-> "700", token_a_symbol |-> "OTH", token_b_symbol |-> "TKN"]
IndexRecords == {PoolA, PoolB, PoolC, PoolD, Null}

\* What one page request can come to: the request rejects, the status is
\* not ok, the body is not JSON, the body has no data array, or a page.
PageResponses ==
  {[kind |-> k] : k \in {"rejected", "http", "badjson", "nodata"}}
    \cup {[kind |-> "data", data |-> d] : d \in SeqsUpTo(IndexRecords, MaxRecords)}

\* The filter of the scan with the identifier check left out.
AcceptsNoDedup(p, seen) ==
  SOL_MINT \in {p.token_a_mint, p.token_b_mint}

\* The filter of the scan: not seen yet, and one side is the native asset.
Accepts(p, seen) ==
  /\ p.pool_address \notin seen
  /\ SOL_MINT \in {p.token_a_mint, p.token_b_mint}

\* The for-of loop over one page, from record i on.
RECURSIVE ScanPage(_, _, _)
ScanPage(page, i, acc) ==
  IF i > Len(page) THEN acc
  ELSE IF page[i] = Null THEN [acc EXCEPT !.threw = TRUE]
  ELSE IF Accepts(page[i], acc.seen)
    THEN ScanPage(page, i + 1,
           [acc EXCEPT !.matched = Append(@, page[i]),
                       !.seen = @ \cup {page[i].pool_address}])
    ELSE ScanPage(page, i + 1,
           [acc EXCEPT !.dup = @ \/ page[i].pool_address \in acc.seen])

\* A failure that ends the whole discovery instead of one strategy.
AfterBreakReturn(f) ==
  [pc |-> "select", field |-> f]

\* Where the scan goes when a strategy's while loop is left.
AfterBreak(f) ==
  IF f < Len(Fields) THEN [pc |-> "discover", field |-> f + 1]
  ELSE [pc |-> "select", field |-> f]

\* A scan that asks for the same offset again.
NextOffsetSame(o) == o

\* offset += 50
NextOffset(o) == o + PageSize

\* One iteration of the while loop: request a page, scan it.
FetchPage ==
  /\ prog = "cp"
  /\ pc = "discover"
  /\ \E resp \in PageResponses :
       /\ (resp.kind = "data" /\ resp.data # <<>>) => offset < PageSize * MaxPages
       /\ LET scan == IF resp.kind = "data"
                      THEN ScanPage(resp.data, 1,
                             [matched |-> matchedPools, seen |-> seenPoolIds,
                              dup |-> dupSkipped, threw |-> FALSE])
                      ELSE [matched |-> matchedPools, seen |-> seenPoolIds,
                            dup |-> dupSkipped, threw |-> TRUE]
              empty == resp.kind = "data" /\ resp.data = <<>>
              next == AfterBreak(field)
          IN  /\ matchedPools' = scan.matched
              /\ seenPoolIds' = scan.seen
              /\ dupSkipped' = scan.dup
              /\ lastFetch' = IF scan.threw THEN "failed"
                              ELSE IF empty THEN "empty" ELSE "page"
              /\ IF scan.threw \/ empty
                 THEN /\ pc' = next.pc
                      /\ field' = next.field
                      /\ offset' = 0
                 ELSE /\ offset' = NextOffset(offset)
                      /\ UNCHANGED <<pc, field>>
  /\ UNCHANGED <<prog, pool, poolState, result, calls, file, file0, saved,
                 passes, delays, thrown, locals, selVars>>

(***************************************************************************)
(* getRealtimeSwapPrice, constant-product tracker.                         *)
(***************************************************************************)
NoPoolCp == [error |-> "No SOL-token pool found."]
StateUnavailable == [error |-> "Failed to fetch or parse valid pool state."]

IsError(r) == "error" \in DOMAIN r

\* Number.prototype.toFixed(2) on the numbers of the model (all integers).
toFixed2(n) == IF n.nan THEN "NaN" ELSE ToString(n.v) \o ".00"

\* r with the fields of s added (or replaced).
With(r, s) ==
  [k \in DOMAIN r \cup DOMAIN s |-> IF k \in DOMAIN s THEN s[k] ELSE r[k]]

\* Decimals of the mint accounts on chain.
MintDecimals(address) ==
  CASE address = SOL_MINT -> 9
    [] address = TOKEN -> 6
    [] address = TOKEN_OTHER_CASE -> 8
    [] OTHER -> 9

\* getMint(connection, address), resolved
getMint(address) == [address |-> address, decimals |-> MintDecimals(address)]

\* Raw outputs a quote for one native unit (10^9 lamports) can carry.
QuoteAmounts == {2500000, 1234567}
TotalFees == {5000}

\* The observation returned for pool p.
Observation(p) ==
  [pool_address |-> p.pool_address,
   amount_out_for_1_SOL |-> toFixed(locals.amountOut, 6),
   total_tvl |-> toFixed2(parseFloat(OrZero(p.tvl))),
   token_symbol |-> IF TOKEN = p.token_a_mint THEN p.token_a_symbol
                    ELSE p.token_b_symbol,
   token_address |-> TOKEN]

\* The selection step with the "no pool" return left out.
AfterSelectNoCheck(p) ==
  [pc |-> "fetchPoolState", result |-> Null]

\* After selection: return the "no pool" record, or go on to the chain.
AfterSelect(p) ==
  IF p = Null THEN [pc |-> "present", result |-> NoPoolCp]
  ELSE [pc |-> "fetchPoolState", result |-> Null]

\* fetchSolTokenPools has returned: select, and return when there is no pool.
Select ==
  /\ prog = "cp"
  /\ pc = "select"
  /\ LET p == findHighestTvlPool(matchedPools)
         next == AfterSelect(p)
     IN  /\ pool' = p
         /\ pc' = next.pc
         /\ result' = next.result
  /\ UNCHANGED <<prog, field, offset, matchedPools, seenPoolIds, poolState,
                 calls, lastFetch, dupSkipped, file, file0, saved, passes,
                 delays, thrown, locals, selVars>>

\* What cpAmm.fetchPoolState can come to: a state object, null, an object
\* with no keys, or a rejection (account missing or not decodable, RPC error).
PoolStateOutcomes == {"state", "null", "empty", "rejects"}

FetchPoolState ==
  /\ prog = "cp"
  /\ pc = "fetchPoolState"
  /\ \E outcome \in PoolStateOutcomes :
       /\ poolState' = outcome
       /\ calls' = calls \cup {"fetchPoolState"}
       /\ CASE outcome = "rejects" ->
                 /\ pc' = "exited"
                 /\ thrown' = "fetchPoolState"
                 /\ UNCHANGED result
            [] outcome \in {"null", "empty"} ->
                 /\ pc' = "present"
                 /\ result' = StateUnavailable
                 /\ UNCHANGED thrown
            [] OTHER ->
                 /\ pc' = "getMint"
                 /\ UNCHANGED <<result, thrown>>
  /\ UNCHANGED <<prog, field, offset, matchedPools, seenPoolIds, pool,
                 lastFetch, dupSkipped, file, file0, saved, passes, delays,
                 locals, selVars>>

\* Promise.all of the two getMint calls (input and output mint).
GetMints ==
  /\ prog = "cp"
  /\ pc = "getMint"
  /\ calls' = calls \cup {"getMint"}
  /\ \E ok \in BOOLEAN :
       IF ok
       THEN LET isSolOutput == pool.token_a_mint # SOL_MINT
            IN  /\ locals' = [isSolOutput |-> isSolOutput,
                              inputMint |-> getMint(SOL_MINT),
                              outputMint |->
                                getMint(IF isSolOutput THEN pool.token_a_mint
                                        ELSE pool.token_b_mint)]
                /\ pc' = "getQuote"
                /\ UNCHANGED thrown
       ELSE pc' = "exited" /\ thrown' = "getMint" /\ UNCHANGED locals
  /\ UNCHANGED <<prog, field, offset, matchedPools, seenPoolIds, pool,
                 poolState, result, lastFetch, dupSkipped, file, file0, saved,
                 passes, delays, selVars>>

\* The local values with the amount divided by the input mint's decimals.
AfterQuoteInputDecimals(l, quote) ==
  With(l, [quote |-> quote,
           amountOut |-> DividedByPow10(quote.swapOutAmount,
                                        l.inputMint.decimals),
           feeMint |-> l.inputMint,
           fee |-> DividedByPow10(quote.totalFee, l.inputMint.decimals)])

\* The local values once the quote is there: amountOut and fee.
AfterQuote(l, quote) ==
  LET feeMint == IF l.isSolOutput THEN l.inputMint ELSE l.outputMint
  IN  With(l, [quote |-> quote,
               amountOut |-> DividedByPow10(quote.swapOutAmount,
                                            l.outputMint.decimals),
               feeMint |-> feeMint,
               fee |-> DividedByPow10(quote.totalFee, feeMint.decimals)])

\* getEpochInfo, getSlot and then cpAmm.getQuote for 10^9 lamports in.
GetQuote ==
  /\ prog = "cp"
  /\ pc = "getQuote"
  /\ \E outcome \in {"quote", "rpcRejects", "quoteThrows"} :
       /\ calls' = calls \cup (IF outcome = "rpcRejects" THEN {"getEpochInfo"}
                               ELSE {"getEpochInfo", "getSlot", "getQuote"})
       /\ IF outcome = "quote"
          THEN /\ \E out \in QuoteAmounts, totalFee \in TotalFees :
                    locals' = AfterQuote(locals, [swapOutAmount |-> out,
                                                  totalFee |-> totalFee])
               /\ pc' = "poolMints"
               /\ UNCHANGED thrown
          ELSE pc' = "exited" /\ thrown' = "getQuote" /\ UNCHANGED locals
  /\ UNCHANGED <<prog, field, offset, matchedPools, seenPoolIds, pool,
                 poolState, result, lastFetch, dupSkipped, file, file0, saved,
                 passes, delays, selVars>>

\* Prices getPriceFromSqrtPrice can give (side B per side A): 3, 0.25, 1.5.
RawPrices ==
  {[ip |-> 3, fd |-> <<>>], [ip |-> 0, fd |-> <<2, 5>>],
   [ip |-> 1, fd |-> <<5>>]}

\* A price that is the raw price whichever side the token is on.
FinalPriceNotInverted(p, rawPrice) == rawPrice

\* finalPrice: inverted when the tracked token is side A.
FinalPrice(p, rawPrice) ==
  IF TOKEN = p.token_a_mint THEN OneDividedBy(rawPrice) ELSE rawPrice

\* Promise.all of the getMint calls for side A and side B, the price from
\* the pool state's sqrtPrice, then the return.
GetPoolMints ==
  /\ prog = "cp"
  /\ pc = "poolMints"
  /\ \E ok \in BOOLEAN :
       IF ok THEN /\ \E rawPrice \in RawPrices :
                       locals' = With(locals,
                         [tokenAMint |-> getMint(pool.token_a_mint),
                          tokenBMint |-> getMint(pool.token_b_mint),
                          rawPrice |-> rawPrice,
                          finalPrice |-> FinalPrice(pool, rawPrice)])
                  /\ pc' = "present"
                  /\ result' = Observation(pool)
                  /\ UNCHANGED thrown
       ELSE /\ pc' = "exited"
            /\ thrown' = "getMint"
            /\ UNCHANGED <<result, locals>>
  /\ UNCHANGED <<prog, field, offset, matchedPools, seenPoolIds, pool,
                 poolState, calls, lastFetch, dupSkipped, file, file0, saved,
                 passes, delays, selVars>>

(***************************************************************************)
(* ResultPersister: saveFormattedResultToJson and the file it rewrites.    *)
(***************************************************************************)
\* displayNames[key] || key
displayNames(key) ==
  CASE key = "token_address" -> "MintB"
    [] key = "token_symbol" -> "Symbol name"
    [] key = "pool_address" -> "Pool address"
    [] key = "total_tvl" -> "TVL"
    [] key = "amount_out_for_1_SOL" -> "Price"
    [] key = "fee" -> "Paid to Liquidity Provider"
    [] key = "price_from_sqrt_price" -> "Current Pool Price"
    [] key = "price_impact" -> "Price Impact"
    [] OTHER -> key

\* The display-labelled copy of a result.
Formatted(res) ==
  [dk \in {displayNames(k) : k \in DOMAIN res} |->
     res[CHOOSE k \in DOMAIN res : displayNames(k) = dk]]

\* { timestamp: now, ...formatted }
Entry(res, now) ==
  LET f == Formatted(res)
  IN  [k \in {"timestamp"} \cup DOMAIN f |->
         IF k \in DOMAIN f THEN f[k] ELSE now]

\* The file's text: not JSON at all, or the JSON text of a value. A value is
\* an array (with its items) or something else (an object, null).
Garbage == [kind |-> "garbage"]
JsonObject == [kind |-> "object"]
JsonArray(items) == [kind |-> "array", items |-> items]

\* JSON.parse
JSONparse(text) ==
  IF text.kind = "garbage" THEN [threw |-> TRUE]
  ELSE [threw |-> FALSE, value |-> text]

isArray(v) == v.kind = "array"

\* JSON.stringify of an array of objects: keys holding undefined are left out.
JSONstringify(items) ==
  JsonArray([i \in 1..Len(items) |->
    [k \in {j \in DOMAIN items[i] : items[i][j] # Undefined} |-> items[i][k]]])

Absent == [exists |-> FALSE]
FileWith(text) == [exists |-> TRUE, text |-> text]

\* An entry an earlier run of the tracker left in the file.
EarlierEntry ==
  [timestamp |-> "T0", error |-> "No SOL-token pool found."]

InitialFiles ==
  {Absent, FileWith(Garbage), FileWith(JsonObject),
   FileWith(JsonArray(<<EarlierEntry>>))}

\* The array the call starts from.
ReadDataArray(f) ==
  IF ~f.exists THEN <<>>
  ELSE LET parsed == JSONparse(f.text)
       IN  IF parsed.threw THEN <<>>
           ELSE IF ~isArray(parsed.value) THEN <<>>
           ELSE parsed.value.items

\* A rewrite that keeps only the new entry.
saveOverwriting(res, f, now) ==
  FileWith(JSONstringify(<<Entry(res, now)>>))

\* The file saveFormattedResultToJson leaves.
saveFormattedResultToJson(res, f, now) ==
  FileWith(JSONstringify(Append(ReadDataArray(f), Entry(res, now))))

\* new Date().toISOString(): one instant per pass.
Now == "T" \o ToString(passes)

(***************************************************************************)
(* The bin-model module: discovery and getRealtimeSwapPrice.               *)
(***************************************************************************)
DlmmA ==
  [address |-> "A", name |-> "SOL-TKN", mint_x |-> SOL_MINT, mint_y |-> TOKEN,
   liquidity |-> "100", reserve_x_amount |-> 1, reserve_y_amount |-> 1]
DlmmB ==
  [address |-> "B", name |-> "TKN-SOL", mint_x |-> TOKEN, mint_y |-> SOL_MINT,
   liquidity |-> "500", reserve_x_amount |-> 1, reserve_y_amount |-> 1]
DlmmC ==
  [address |-> "C", name |-> "SOL-OTH", mint_x |-> SOL_MINT, mint_y |-> OTHER_MINT,
   liquidity |-> "900", reserve_x_amount |-> 1, reserve_y_amount |-> 1]
DlmmE ==
  [address |-> "E", name |-> "SOL-TKX", mint_x |-> SOL_MINT,
   mint_y |-> TOKEN_OTHER_CASE,
   liquidity |-> "700", reserve_x_amount |-> 1, reserve_y_amount |-> 1]
DlmmZ ==
  [address |-> "Z", name |-> "TKN-SOL", mint_x |-> TOKEN, mint_y |-> SOL_MINT,
   liquidity |-> "500", reserve_x_amount |-> 0, reserve_y_amount |-> 1]
DlmmN ==
  [address |-> "N", name |-> "TKN-SOL", mint_x |-> TOKEN, mint_y |-> SOL_MINT,
   liquidity |-> Undefined, reserve_x_amount |-> 1, reserve_y_amount |-> 1]
PairRecords == {DlmmA, DlmmB, DlmmC, DlmmE, DlmmZ, DlmmN, Null}

\* What the single request can come to.
PairResponses ==
  {[kind |-> k] : k \in {"rejected", "http", "badjson"}}
    \cup {[kind |-> "data", data |-> d] : d \in SeqsUpTo(PairRecords, MaxRecords)}

\* isSolToToken && hasLiquidity && hasReserves
IsUsable(p) ==
  LET mintX == toLowerCase(p.mint_x)
      mintY == toLowerCase(p.mint_y)
      liquidity == parseFloat(OrZero(p.liquidity))
  IN  /\ \/ mintX = toLowerCase(SOL_MINT) /\ mintY = toLowerCase(TOKEN)
         \/ mintY = toLowerCase(SOL_MINT) /\ mintX = toLowerCase(TOKEN)
      /\ Gt(liquidity, Num(0))
      /\ p.reserve_x_amount > 0 /\ p.reserve_y_amount > 0

RECURSIVE FilterUsable(_, _, _)
FilterUsable(all, i, matched) ==
  IF i > Len(all) THEN matched
  ELSE FilterUsable(all, i + 1,
         IF IsUsable(all[i]) THEN Append(matched, all[i]) ELSE matched)

\* fetchSolTokenPools of the module: any failure, a record that is not an
\* object included, is caught and gives the empty list.
dlmmFetchSolTokenPools(resp) ==
  IF resp.kind # "data" THEN <<>>
  ELSE IF \E i \in 1..Len(resp.data) : resp.data[i] = Null THEN <<>>
  ELSE FilterUsable(resp.data, 1, <<>>)

NoPoolDlmm == [error |-> "No DLMM SOL-token pool found."]
SwapFailed == [error |-> "Swap calculation failed"]

\* The request of the module's discovery and its scan.
DlmmFetchAll ==
  /\ prog = "dlmm"
  /\ pc = "discover"
  /\ \E resp \in PairResponses :
       /\ matchedPools' = dlmmFetchSolTokenPools(resp)
       /\ lastFetch' = IF resp.kind # "data"
                          \/ \E i \in 1..Len(resp.data) : resp.data[i] = Null
                       THEN "failed"
                       ELSE IF resp.data = <<>> THEN "empty" ELSE "page"
  /\ pc' = "select"
  /\ UNCHANGED <<prog, field, offset, seenPoolIds, pool, poolState, result,
                 calls, dupSkipped, file, file0, saved, passes, delays, thrown,
                 locals, selVars>>

\* Discovery has returned: sort, take the head, return when there is none.
DlmmSelect ==
  /\ prog = "dlmm"
  /\ pc = "select"
  /\ \E p \in findHighestLiquidityPool(matchedPools) :
       /\ pool' = p
       /\ IF p = Null THEN pc' = "present" /\ result' = NoPoolDlmm
          ELSE pc' = "create" /\ UNCHANGED result
  /\ UNCHANGED <<prog, field, offset, matchedPools, seenPoolIds, poolState,
                 calls, lastFetch, dupSkipped, file, file0, saved, passes,
                 delays, thrown, locals, selVars>>

\* String.prototype.split('-') and toUpperCase on the pool names of the model.
split(name) ==
  CASE name = "SOL-TKN" -> <<"SOL", "TKN">>
    [] name = "TKN-SOL" -> <<"TKN", "SOL">>
    [] name = "SOL-OTH" -> <<"SOL", "OTH">>
    [] name = "SOL-TKX" -> <<"SOL", "TKX">>
    [] OTHER -> <<name>>

toUpperCase(s) == IF s = "sol" THEN "SOL" ELSE s

\* parseTokenSymbol: the first part of the name that is not SOL.
parseTokenSymbol(poolName) ==
  LET parts == split(poolName)
      found == {i \in 1..Len(parts) : toUpperCase(parts[i]) # "SOL"}
  IN  IF Len(parts) >= 2 /\ found # {}
      THEN parts[CHOOSE i \in found : \A j \in found : i <= j]
      ELSE "UNKNOWN"

\* dlmmPool.lbPair as the price block finds it: missing, without an active
\* bin, with one (below or above bin 0), or such that the computation raises.
LbPairs ==
  {[kind |-> "missing"], [kind |-> "raises"],
   [kind |-> "state", binStep |-> 25],
   [kind |-> "state", binStep |-> 25, activeId |-> -3],
   [kind |-> "state", binStep |-> 25, activeId |-> 5]}

\* (1 + binStep / 10000) ^ activeBinId * 10 ^ (dx - dy), a double: kept as
\* the term it is computed from, not evaluated.
PriceOfYinX(activeBinId, binStep, dx, dy) ==
  [pow |-> [base |-> [one |-> 1, plus |-> binStep, over |-> 10000],
            exponent |-> activeBinId],
   timesTenTo |-> dx - dy]

\* realTimePrice as the price block leaves it: null, the price of Y in X
\* when the native asset is X, else its inverse (the powers of the model
\* are not zero).
RealTimePrice(lb, solIsMintX, dx, dy) ==
  IF lb.kind # "state" \/ "activeId" \notin DOMAIN lb THEN Null
  ELSE LET priceOfYinX == PriceOfYinX(lb.activeId, lb.binStep, dx, dy)
       IN  IF solIsMintX THEN [toNumber |-> priceOfYinX]
           ELSE [toNumber |-> [one |-> 1, dividedBy |-> priceOfYinX]]

\* A price block without its own try / catch: what raises in it escapes.
PriceBlockUnguarded(lb, solIsMintX, dx, dy) ==
  [escapes |-> lb.kind = "raises",
   realTimePrice |-> RealTimePrice(lb, solIsMintX, dx, dy)]

\* The price block: whatever raises in it is caught and logged there.
PriceBlock(lb, solIsMintX, dx, dy) ==
  [escapes |-> FALSE, realTimePrice |-> RealTimePrice(lb, solIsMintX, dx, dy)]

\* The local values once both mints are there, the price block included.
AfterMints(p, l) ==
  LET mintX == getMint(p.mint_x)
      mintY == getMint(p.mint_y)
      solIsMintX == toLowerCase(p.mint_x) = toLowerCase(SOL_MINT)
      price == PriceBlock(l.lbPair, solIsMintX, mintX.decimals, mintY.decimals)
  IN  [escapes |-> price.escapes,
       locals |-> With(l, [mintX |-> mintX,
                           mintY |-> mintY,
                           solIsMintX |-> solIsMintX,
                           tokenMint |-> IF solIsMintX THEN mintY ELSE mintX,
                           swapAmount |-> 1 * Pow10(9),
                           swapYtoX |-> IF solIsMintX THEN FALSE ELSE TRUE,
                           realTimePrice |-> price.realTimePrice])]

\* The legs of dlmmPool.swapQuote(inAmount, swapForY, ...): the SDK takes
\* side X in and gives side Y out when its second argument is true, and
\* the reverse when it is false.
QuoteLegs(p, swapForY) ==
  IF swapForY THEN [inMint |-> p.mint_x, outMint |-> p.mint_y]
  ELSE [inMint |-> p.mint_y, outMint |-> p.mint_x]

\* The local values once the quote is there.
AfterSwapQuote(l, swapQuote) ==
  LET solDecimals == 9
      tokenDecimals == l.tokenMint.decimals
      tokenAmountOut == DividedByPow10(swapQuote.minOutAmount, tokenDecimals)
      solAmountIn == DividedByPow10(l.swapAmount, solDecimals)
  IN  With(l, [swapQuote |-> swapQuote,
               tokenAmountOut |-> tokenAmountOut,
               solAmountIn |-> solAmountIn,
               feeInSol |-> DividedByPow10(swapQuote.fee, solDecimals)])

\* The record returned when the quote succeeded; realTimePrice.toFixed(6)
\* read back as a number is kept as a term.
DlmmObservation(p) ==
  ("Pool address" :> p.address)
    @@ ("Price" :> IF locals.realTimePrice # Null
                   THEN [parseFloat |-> [toFixed6 |-> locals.realTimePrice]]
                   ELSE Null)
    @@ ("TVL" :> parseFloat(OrZero(p.liquidity)))
    @@ ("Symbol name" :> parseTokenSymbol(p.name))
    @@ ("MintB" :> TOKEN)

\* An awaited call whose rejection is not caught in getRealtimeSwapPrice.
DlmmAwaitUncaught(at, call, to, after) ==
  /\ prog = "dlmm"
  /\ pc = at
  /\ calls' = calls \cup {call}
  /\ \E ok \in BOOLEAN :
       IF ~ok THEN pc' = "exited" /\ thrown' = call /\ UNCHANGED <<result, locals>>
       ELSE /\ pc' = to
            /\ locals' = after.locals
            /\ result' = IF to = "present" THEN DlmmObservation(pool) ELSE result
            /\ UNCHANGED thrown
  /\ UNCHANGED <<prog, field, offset, matchedPools, seenPoolIds, pool,
                 poolState, lastFetch, dupSkipped, file, file0, saved, passes,
                 delays, selVars>>

\* One awaited call of the try block, made at position at, and the
\* synchronous code up to the next one: the call resolves and the pass goes
\* on to position to with the local values after.locals; or the call
\* rejects, or that code raises, and the catch returns the error record.
DlmmAwait(at, call, to, after) ==
  /\ prog = "dlmm"
  /\ pc = at
  /\ calls' = calls \cup {call}
  /\ \E ok \in BOOLEAN :
       IF ~ok THEN pc' = "present" /\ result' = SwapFailed /\ UNCHANGED locals
       ELSE IF after.escapes
       THEN pc' = "present" /\ result' = SwapFailed /\ locals' = after.locals
       ELSE /\ pc' = to
            /\ locals' = after.locals
            /\ result' = IF to = "present" THEN DlmmObservation(pool) ELSE result
  /\ UNCHANGED <<prog, field, offset, matchedPools, seenPoolIds, pool,
                 poolState, lastFetch, dupSkipped, file, file0, saved, passes,
                 delays, thrown, selVars>>

DlmmCreate ==
  \E lb \in LbPairs :
    DlmmAwait("create", "DLMM.create", "getMint",
              [escapes |-> FALSE, locals |-> [lbPair |-> lb]])

DlmmGetMints ==
  DlmmAwait("getMint", "getMint", "binArrays", AfterMints(pool, locals))

DlmmBinArrays ==
  DlmmAwait("binArrays", "getBinArrayForSwap", "swapQuote",
            [escapes |-> FALSE,
             locals |-> With(locals, [binArrays |-> [swapYtoX |-> locals.swapYtoX]])])

DlmmSwapQuote ==
  \E minOutAmount \in QuoteAmounts, fee \in TotalFees :
    DlmmAwait("swapQuote", "swapQuote", "present",
              [escapes |-> FALSE,
               locals |-> AfterSwapQuote(locals,
                            [minOutAmount |-> minOutAmount, fee |-> fee,
                             legs |-> QuoteLegs(pool, locals.swapYtoX)])])

(***************************************************************************)
(* PollingDriver: main of index.ts and main of price_final.ts.             *)
(***************************************************************************)
TokenInputs == {"valid", "malformed", "empty"}

\* The prompt is answered: the address is parsed, the tracker constructed.
Start ==
  /\ pc = "prompt"
  /\ \E input \in TokenInputs :
       CASE input = "valid" -> pc' = "looptop" /\ UNCHANGED thrown
         [] input = "empty" /\ prog = "dlmm" -> pc' = "exited" /\ UNCHANGED thrown
         [] OTHER -> pc' = "exited" /\ thrown' = "PublicKey"
  /\ UNCHANGED <<prog, field, offset, matchedPools, seenPoolIds, pool,
                 poolState, result, calls, lastFetch, dupSkipped, file, file0,
                 saved, passes, delays, locals, selVars>>

\* The top of the while loop: getRealtimeSwapPrice is called.
BeginPass ==
  /\ pc = "looptop"
  /\ passes < MaxPasses
  /\ passes' = passes + 1
  /\ pc' = "discover"
  /\ field' = 1
  /\ offset' = 0
  /\ matchedPools' = <<>>
  /\ seenPoolIds' = {}
  /\ pool' = Null
  /\ poolState' = "none"
  /\ result' = Null
  /\ calls' = {}
  /\ lastFetch' = "none"
  /\ dupSkipped' = FALSE
  /\ locals' = Null
  /\ UNCHANGED <<prog, file, file0, saved, delays, thrown, selVars>>

\* A loop body that starts the next pass at once after an error record.
AfterPresentSkippingDelay(res) ==
  IF IsError(res) THEN "looptop" ELSE "delay"

\* A loop body that presents (and saves) the result it holds once more.
AfterPresentAgain(res) == "present"

\* Where main goes once the result is printed (and saved): the delay.
AfterPresent(res) == "delay"

\* index.ts: the call has returned (its local values are gone); the result
\* is printed and saved; a failing write leaves the loop.
PresentAndSave ==
  /\ prog = "cp"
  /\ pc = "present"
  /\ locals' = Null
  /\ \E writes \in BOOLEAN :
       IF writes
       THEN /\ file' = saveFormattedResultToJson(result, file, Now)
            /\ saved' = Append(saved, [result |-> result, at |-> Now])
            /\ pc' = AfterPresent(result)
            /\ UNCHANGED thrown
       ELSE /\ pc' = "exited"
            /\ thrown' = "writeFileSync"
            /\ UNCHANGED <<file, saved>>
  /\ UNCHANGED <<prog, field, offset, matchedPools, seenPoolIds, pool,
                 poolState, result, calls, lastFetch, dupSkipped, file0,
                 passes, delays, selVars>>

\* price_final.ts: the call has returned; the result is printed.
DlmmPresent ==
  /\ prog = "dlmm"
  /\ pc = "present"
  /\ pc' = AfterPresent(result)
  /\ locals' = Null
  /\ UNCHANGED <<prog, field, offset, matchedPools, seenPoolIds, pool,
                 poolState, result, calls, lastFetch, dupSkipped, file, file0,
                 saved, passes, delays, thrown, selVars>>

\* The one-second timer fires.
Delay ==
  /\ pc = "delay"
  /\ delays' = delays + 1
  /\ pc' = "looptop"
  /\ UNCHANGED <<prog, field, offset, matchedPools, seenPoolIds, pool,
                 poolState, result, calls, lastFetch, dupSkipped, file, file0,
                 saved, passes, thrown, locals, selVars>>

(***************************************************************************)
(* Specifications.                                                         *)
(***************************************************************************)
SelIdle ==
  /\ selInput = <<>>
  /\ selOut = Null
  /\ selStage = "idle"

DriverIdle ==
  /\ pc = "idle"
  /\ field = 1
  /\ offset = 0
  /\ matchedPools = <<>>
  /\ seenPoolIds = {}
  /\ pool = Null
  /\ poolState = "none"
  /\ result = Null
  /\ calls = {}
  /\ lastFetch = "none"
  /\ dupSkipped = FALSE
  /\ file = Absent
  /\ file0 = Absent
  /\ saved = <<>>
  /\ passes = 0
  /\ delays = 0
  /\ thrown = ""
  /\ locals = Null

\* The programs as started from the command line.
Init ==
  /\ prog \in {"cp", "dlmm"}
  /\ pc = "prompt"
  /\ field = 1
  /\ offset = 0
  /\ matchedPools = <<>>
  /\ seenPoolIds = {}
  /\ pool = Null
  /\ poolState = "none"
  /\ result = Null
  /\ calls = {}
  /\ lastFetch = "none"
  /\ dupSkipped = FALSE
  /\ file \in (IF prog = "cp" THEN InitialFiles ELSE {Absent})
  /\ file0 = file
  /\ saved = <<>>
  /\ passes = 0
  /\ delays = 0
  /\ thrown = ""
  /\ locals = Null
  /\ SelIdle

Next ==
  \/ Start
  \/ BeginPass
  \/ FetchPage
  \/ Select
  \/ FetchPoolState
  \/ GetMints
  \/ GetQuote
  \/ GetPoolMints
  \/ PresentAndSave
  \/ DlmmFetchAll
  \/ DlmmSelect
  \/ DlmmCreate
  \/ DlmmGetMints
  \/ DlmmBinArrays
  \/ DlmmSwapQuote
  \/ DlmmPresent
  \/ Delay

Spec == Init /\ [][Next]_vars

\* The two selectors applied to every short sequence of liquidity values.
InitSel ==
  /\ prog = "cp"
  /\ DriverIdle
  /\ InitSelect

NextSel == ApplySelect /\ UNCHANGED driverVars

SpecSelect == InitSel /\ [][NextSel]_vars

\* price_final.ts alone, every awaited call settling and the timer firing.
InitDlmm == Init /\ prog = "dlmm"

NextDlmm ==
  \/ Start
  \/ BeginPass
  \/ DlmmFetchAll
  \/ DlmmSelect
  \/ DlmmCreate
  \/ DlmmGetMints
  \/ DlmmBinArrays
  \/ DlmmSwapQuote
  \/ DlmmPresent
  \/ Delay

SpecDlmm == InitDlmm /\ [][NextDlmm]_vars /\ WF_vars(NextDlmm)

\* index.ts up to the end of its first cycle, every page request settling.
InitCp == Init /\ prog = "cp"

NextCp ==
  \/ Start
  \/ BeginPass
  \/ FetchPage
  \/ Select
  \/ FetchPoolState
  \/ GetMints
  \/ GetQuote
  \/ GetPoolMints
  \/ PresentAndSave

SpecCp == InitCp /\ [][NextCp]_vars /\ WF_vars(FetchPage)

(***************************************************************************)
(* Properties.                                                             *)
(***************************************************************************)
IsPrefix(s, t) == Len(s) <= Len(t) /\ SubSeq(t, 1, Len(s)) = s

\* C1 (as claimed): in the polling driver of index.ts nothing but a
\* malformed token address ends the process; every error raised inside a
\* pass is turned into an error record and the loop goes on.
C1_OnlyInputErrorEndsDriver ==
  (prog = "cp" /\ pc = "exited") => thrown = "PublicKey"

AllNumeric == \A i \in 1..Len(selInput) : selInput[i] \in NumericStrings

\* The first position holding the maximum of a sequence of numeric strings.
FirstMaximum(tvls) ==
  CHOOSE i \in 1..Len(tvls) :
    /\ \A j \in 1..Len(tvls) : parseFloat(tvls[j]).v <= parseFloat(tvls[i]).v
    /\ \A j \in 1..(i - 1) : parseFloat(tvls[j]).v < parseFloat(tvls[i]).v

\* C2: on a non-empty sequence of pools with numeric liquidity both
\* selectors return the pool at the first position holding the maximum; on
\* the empty sequence both return none.
C2_SelectFirstMaximum ==
  (selStage = "done" /\ AllNumeric) =>
    IF selInput = <<>>
    THEN selOut.tvl = Null /\ selOut.liquidity = Null
    ELSE /\ selOut.tvl.pool_address = ToString(FirstMaximum(selInput))
         /\ selOut.liquidity.address = ToString(FirstMaximum(selInput))

\* C2 witness: three numeric values whose maximum is held by the last two
\* positions, and both selectors returned the second pool.
C2_Witness ==
  /\ selStage = "done"
  /\ selInput = <<"0", "100", "100.0">>
  /\ selOut.tvl.pool_address = "2"
  /\ selOut.liquidity.address = "2"

\* C3: the candidate list of the constant-product discovery never holds a
\* pool identifier twice.
C3_NoDuplicateIds ==
  prog = "cp" =>
    \A i, j \in 1..Len(matchedPools) :
      i # j => matchedPools[i].pool_address # matchedPools[j].pool_address

\* C3 witness: discovery has finished with candidates, after a page served
\* an identifier that had been accepted before.
C3_Witness ==
  /\ prog = "cp"
  /\ pc = "select"
  /\ dupSkipped
  /\ matchedPools # <<>>

\* C4 (as claimed): every pool discovery holds pairs the native asset with
\* the requested token.
C4_PairsTokenWithSol ==
  \A i \in 1..Len(matchedPools) :
    LET p == matchedPools[i]
    IN  IF prog = "cp"
        THEN {p.token_a_mint, p.token_b_mint} = {SOL_MINT, TOKEN}
        ELSE {p.mint_x, p.mint_y} = {SOL_MINT, TOKEN}

\* The entries the run found in the file (none unless it held an array).
BaseEntries ==
  IF file0.exists /\ file0.text.kind = "array" THEN file0.text.items ELSE <<>>

\* C5: after N completed save calls the file holds a JSON array made of the
\* entries it held as a valid array before (none when it was absent,
\* unparseable or not an array), unchanged and in order, followed by one
\* entry per call, in call order.
C5_AppendOnlySelfHealing ==
  (prog = "cp" /\ saved # <<>>) =>
    /\ file.exists
    /\ file.text.kind = "array"
    /\ LET items == file.text.items
           k == Len(BaseEntries)
       IN  /\ Len(items) = k + Len(saved)
           /\ SubSeq(items, 1, k) = BaseEntries
           /\ \A i \in 1..Len(saved) :
                /\ items[k + i]["timestamp"] = saved[i].at
                /\ \A key \in DOMAIN saved[i].result :
                     saved[i].result[key] # Undefined =>
                       items[k + i][displayNames(key)] = saved[i].result[key]

\* C5 witness: two saves were made against a file that was not JSON.
C5_Witness ==
  /\ prog = "cp"
  /\ file0 = FileWith(Garbage)
  /\ Len(saved) = 2

\* C6: when discovery ends with no qualifying pool, the pass returns the
\* "no pool found" record, issues no chain or quote call and raises nothing.
C6_NoPoolFound ==
  (passes > 0 /\ pc \notin {"discover", "select"} /\ matchedPools = <<>>) =>
    /\ result = IF prog = "cp" THEN NoPoolCp ELSE NoPoolDlmm
    /\ calls = {}
    /\ thrown \in {"", "writeFileSync"}

\* C6 witness: the tracker's pass returned the record after failed requests.
C6_Witness ==
  /\ prog = "cp"
  /\ pc = "present"
  /\ lastFetch = "failed"
  /\ matchedPools = <<>>
  /\ result = NoPoolCp

\* C7: a failing page request raises nothing, keeps the pools accepted so
\* far, and ends only its own strategy: after a failure in the first
\* strategy the second starts at offset 0, after one in the second
\* discovery returns.
C7_FailureEndsOneStrategy ==
  [][(prog = "cp" /\ pc = "discover" /\ lastFetch' = "failed") =>
       /\ thrown' = ""
       /\ IsPrefix(matchedPools, matchedPools')
       /\ IF field = 1
          THEN pc' = "discover" /\ field' = 2 /\ offset' = 0
          ELSE pc' = "select"]_vars

\* C7 witness: the first strategy failed after pools had been accepted and
\* the second strategy is about to request offset 0.
C7_Witness ==
  /\ prog = "cp"
  /\ pc = "discover"
  /\ field = 2
  /\ offset = 0
  /\ lastFetch = "failed"
  /\ matchedPools # <<>>

\* C8: a pass starts only at the start of the run or after the delay that
\* followed the previous pass: inside a pass and before its delay, passes
\* started are one more than delays elapsed; at the top of the loop they
\* are equal.
C8_DelayBetweenPasses ==
  /\ pc \notin {"prompt", "looptop", "exited"} => passes = delays + 1
  /\ pc = "looptop" => passes = delays

\* C8 witness: a pass ended in an error record and its delay has elapsed.
C8_Witness ==
  /\ pc = "looptop"
  /\ passes = 1
  /\ delays = 1
  /\ IsError(result)

\* C9 (as claimed): when the pool state is missing, empty or cannot be
\* fetched or decoded, the pass returns the pool-state-unavailable record
\* and makes no mint lookup and no quote call.
C9_StateUnavailableReported ==
  (prog = "cp" /\ poolState \in {"null", "empty", "rejects"}) =>
    /\ result = StateUnavailable
    /\ calls \cap {"getMint", "getQuote"} = {}

\* The input with every missing or non-numeric value replaced by "0".
ZeroedInput ==
  [i \in 1..Len(selInput) |->
     IF selInput[i] \in NumericStrings THEN selInput[i] ELSE "0"]

\* C10 (as claimed): the selectors return the pool they return when every
\* missing or non-numeric liquidity value is replaced by 0.
C10_MissingRanksAsZero ==
  (selStage = "done" /\ selInput # <<>>) =>
    /\ selOut.tvl.pool_address =
         findHighestTvlPool(TvlPools(ZeroedInput)).pool_address
    /\ selOut.liquidity.address \in
         {p.address : p \in findHighestLiquidityPool(LiquidityPools(ZeroedInput))}

\* The fields of a full observation of the constant-product tracker.
ObservationFields ==
  {"pool_address", "amount_out_for_1_SOL", "total_tvl", "token_symbol",
   "token_address"}

\* C11: the log is written at most once per cycle, only by the driver once
\* the pass has returned, and only with the full observation or the error
\* record that cycle's pass returned; a pass that ends without returning a
\* result (it raised) leaves the log as it was.
C11_NoPartialCommit ==
  /\ [](\A i, j \in 1..Len(saved) : i # j => saved[i].at # saved[j].at)
  /\ []((pc = "exited" /\ thrown \notin {"PublicKey", "writeFileSync"}) =>
          /\ result = Null
          /\ \A i \in 1..Len(saved) : saved[i].at # Now)
  /\ [][(file' # file \/ saved' # saved) =>
          /\ prog = "cp"
          /\ pc = "present"
          /\ DOMAIN result = {"error"} \/ DOMAIN result = ObservationFields
          /\ file' = saveFormattedResultToJson(result, file, Now)
          /\ saved' = Append(saved, [result |-> result, at |-> Now])]_vars

\* C11 witness: the first pass was saved, the second raised in a mint
\* lookup, and the log holds the first pass's entry alone.
C11_Witness ==
  /\ prog = "cp"
  /\ pc = "exited"
  /\ thrown = "getMint"
  /\ passes = 2
  /\ file0 = Absent
  /\ Len(saved) = 1
  /\ Len(file.text.items) = 1

\* The mint of a pool's side that is not the native asset.
OtherSideMint(p) ==
  IF p.token_a_mint = SOL_MINT THEN p.token_b_mint ELSE p.token_a_mint

\* raw / 10^d in millionths, rounded half up.
Millionths(raw, d) ==
  IF d <= 6 THEN raw * Pow10(6 - d)
  ELSE (raw + Pow10(d - 6) \div 2) \div Pow10(d - 6)

\* A count of millionths written with six decimal places.
SixPlaces(m) ==
  ToString(m \div 1000000) \o "."
    \o DigitString([i \in 1..6 |-> (m \div Pow10(6 - i)) % 10])

\* C12: the observation a pass returns names the pool the selector chose,
\* and its amount-out is the quote's raw output divided by 10^(decimals of
\* the pool's non-native mint), written with six decimal places; with
\* candidates A (tvl 100) and B (tvl 500), output decimals 6 and raw output
\* 2500000 the observation names B and its amount-out is "2.500000".
C12_AmountOutNormalized ==
  (prog = "cp" /\ pc = "present" /\ ~IsError(result)) =>
    /\ pool = findHighestTvlPool(matchedPools)
    /\ result.pool_address = pool.pool_address
    /\ result.amount_out_for_1_SOL =
         SixPlaces(Millionths(locals.quote.swapOutAmount,
                              MintDecimals(OtherSideMint(pool))))
    /\ ({matchedPools[i] : i \in 1..Len(matchedPools)} = {PoolA, PoolB}
          /\ locals.quote.swapOutAmount = 2500000) =>
         /\ result.pool_address = "B"
         /\ result.amount_out_for_1_SOL = "2.500000"

\* C12 witness: the pass returned its observation for candidates A and B, a
\* raw output of 2500000 and an output mint of 6 decimals.
C12_Witness ==
  /\ prog = "cp"
  /\ pc = "present"
  /\ matchedPools = <<PoolA, PoolB>>
  /\ DOMAIN result = ObservationFields
  /\ locals.quote.swapOutAmount = 2500000
  /\ locals.outputMint.decimals = 6
  /\ result.pool_address = "B"
  /\ result.amount_out_for_1_SOL = "2.500000"

\* The digits ds times x, with the carry that leaves at the front.
RECURSIVE TimesDigits(_, _)
TimesDigits(ds, x) ==
  IF ds = <<>> THEN [carry |-> 0, digits |-> <<>>]
  ELSE LET rest == TimesDigits(Tail(ds), x)
           t == ds[1] * x + rest.carry
       IN  [carry |-> t \div 10, digits |-> <<t % 10>> \o rest.digits]

\* The raw price as the integer numerator over 10^scale.
Numerator(x) == x.ip * Pow10(Len(x.fd)) + DigitsToInt(x.fd)

\* f times the numerator of x, with DECIMAL_PLACES digits after the point.
TimesNumerator(f, x) ==
  LET padded == [i \in 1..DECIMAL_PLACES |->
                   IF i <= Len(f.fd) THEN f.fd[i] ELSE 0]
      fr == TimesDigits(padded, Numerator(x))
  IN  [ip |-> f.ip * Numerator(x) + fr.carry, fd |-> fr.digits]

\* f * x = 1
IsReciprocal(f, x) ==
  LET prod == TimesNumerator(f, x)
  IN  /\ prod.ip = Pow10(Len(x.fd))
      /\ \A i \in 1..DECIMAL_PLACES : prod.fd[i] = 0

\* f * x is within half a unit of the last place of f times x from 1, that
\* is, f is 1 / x rounded to DECIMAL_PLACES places.
IsRoundedReciprocal(f, x) ==
  LET prod == TimesNumerator(f, x)
      head == SubSeq(prod.fd, 1, DECIMAL_PLACES - 9)
      tail == DigitsToInt(SubSeq(prod.fd, DECIMAL_PLACES - 8, DECIMAL_PLACES))
  IN  /\ Len(f.fd) <= DECIMAL_PLACES
      /\ \/ /\ prod.ip = Pow10(Len(x.fd))
            /\ \A i \in 1..Len(head) : head[i] = 0
            /\ 2 * tail <= Numerator(x)
         \/ /\ prod.ip = Pow10(Len(x.fd)) - 1
            /\ \A i \in 1..Len(head) : head[i] = 9
            /\ 2 * (Pow10(9) - tail) <= Numerator(x)

PriceComputed == prog = "cp" /\ pool # Null /\ "finalPrice" \in DOMAIN locals

\* C13 (as claimed): where the tracked token is side A the price is the
\* reciprocal of the raw side-B-per-side-A price; where it is side B the
\* price is the raw price unchanged.
C13_PriceIsReciprocal ==
  PriceComputed =>
    /\ TOKEN = pool.token_a_mint =>
         IsReciprocal(locals.finalPrice, locals.rawPrice)
    /\ TOKEN = pool.token_b_mint => locals.finalPrice = locals.rawPrice

\* C13 (amended): where the tracked token is side A the price the pass
\* computes is the reciprocal of the raw price rounded to 20 decimal
\* places; where it is side B it is the raw price unchanged. The returned
\* record does not carry the price.
C13_PriceIsRoundedReciprocal ==
  PriceComputed =>
    /\ TOKEN = pool.token_a_mint =>
         IsRoundedReciprocal(locals.finalPrice, locals.rawPrice)
    /\ TOKEN = pool.token_b_mint => locals.finalPrice = locals.rawPrice
    /\ result # Null /\ "price_from_sqrt_price" \notin DOMAIN result

\* C13 witness: the token is side A of the selected pool, the raw price is
\* 1.5 and the price computed is 0.66666666666666666667.
C13_Witness ==
  /\ PriceComputed
  /\ pc = "present"
  /\ pool = PoolA
  /\ locals.rawPrice = [ip |-> 1, fd |-> <<5>>]
  /\ locals.finalPrice.ip = 0
  /\ Len(locals.finalPrice.fd) = DECIMAL_PLACES
  /\ locals.finalPrice.fd[DECIMAL_PLACES] = 7

\* C14 is not stated here: its equality is between a double-precision
\* Math.pow result and a real-valued expression.

\* C15 (as claimed): in the constant-product quoter the fee is the quote's
\* raw total fee divided by 10^(decimals of the native asset), whichever
\* side of the pool the native asset is on.
C15_FeeInNativeUnits ==
  (prog = "cp" /\ "fee" \in DOMAIN locals) =>
    locals.fee = DividedByPow10(locals.quote.totalFee, MintDecimals(SOL_MINT))

\* C16 (as claimed): in the bin quoter the simulated trade takes the native
\* asset as its input leg and the token as its output leg, X to Y when the
\* native asset is side X and Y to X when it is side Y; the raw amount-out
\* is divided by 10^(the token's decimals) and the raw fee by 10^(the
\* native asset's decimals).
C16_NativeInTokenOut ==
  (prog = "dlmm" /\ "swapQuote" \in DOMAIN locals) =>
    LET legs == locals.swapQuote.legs
    IN  /\ legs.inMint = SOL_MINT
        /\ toLowerCase(legs.outMint) = toLowerCase(TOKEN)
        /\ pool.mint_x = SOL_MINT =>
              legs = [inMint |-> pool.mint_x, outMint |-> pool.mint_y]
        /\ pool.mint_y = SOL_MINT =>
              legs = [inMint |-> pool.mint_y, outMint |-> pool.mint_x]
        /\ locals.tokenAmountOut =
              DividedByPow10(locals.swapQuote.minOutAmount,
                             MintDecimals(legs.outMint))
        /\ locals.feeInSol =
              DividedByPow10(locals.swapQuote.fee, MintDecimals(legs.inMint))

\* The price block has run and left no price.
PriceUnavailable ==
  /\ prog = "dlmm"
  /\ "realTimePrice" \in DOMAIN locals
  /\ locals.lbPair.kind # "state" \/ "activeId" \notin DOMAIN locals.lbPair

\* C17: in the bin quoter, when the pool state or its active bin is missing
\* or the price computation raises, the pass goes on to request the bin
\* arrays and the quote, and once the quote is there it returns an
\* observation (not an error record) whose price is null and whose pool
\* address, TVL, symbol and token address are set.
C17_PriceUnavailableStillQuotes ==
  PriceUnavailable =>
    /\ pc = "binArrays" \/ "getBinArrayForSwap" \in calls
    /\ "swapQuote" \in DOMAIN locals =>
         /\ ~IsError(result)
         /\ result["Price"] = Null
         /\ result["Pool address"] = pool.address
         /\ result["TVL"] = parseFloat(OrZero(pool.liquidity))
         /\ result["Symbol name"] \in {"TKN", "TKX"}
         /\ result["MintB"] = TOKEN

\* C17 witness: the computation raised in the price block, the quote was
\* simulated all the same and the observation returned carries a null price.
C17_Witness ==
  /\ PriceUnavailable
  /\ locals.lbPair.kind = "raises"
  /\ pc = "present"
  /\ "swapQuote" \in calls
  /\ "swapQuote" \in DOMAIN locals
  /\ result["Price"] = Null
  /\ result["Pool address"] = "B"

\* C18: in the bin-model module getRealtimeSwapPrice never raises: main
\* leaves its loop only at the prompt, every pass ends with an observation
\* or an error record, and every pass is followed by the delay and then by
\* another pass (as far as the model follows the loop).
C18_DlmmLoopNeverExits ==
  /\ [](pc = "exited" => passes = 0)
  /\ [](pc \in {"present", "delay"} =>
          /\ result # Null
          /\ IsError(result) \/ "Pool address" \in DOMAIN result)
  /\ \A n \in 1..(MaxPasses - 1) :
       /\ (passes = n /\ pc = "discover") ~> (passes = n /\ pc = "delay")
       /\ (passes = n /\ pc = "delay") ~> (passes = n + 1 /\ pc = "discover")

\* C18 witness: the first pass was followed by its delay and the second
\* pass returned the error record after DLMM.create rejected.
C18_Witness ==
  /\ prog = "dlmm"
  /\ passes = 2
  /\ delays = 1
  /\ pc = "present"
  /\ calls = {"DLMM.create"}
  /\ result = SwapFailed

\* C19: each query strategy requests offset 0 first and, after every
\* non-empty page, the offset 50 higher, so no offset twice; a non-empty
\* page never ends the strategy; the first empty page or failure ends it
\* (the second strategy then starts at offset 0, or discovery returns); and
\* when each strategy is served an empty page or a failure after finitely
\* many non-empty pages, discovery returns.
C19_DiscoveryTerminates ==
  /\ [][(pc # "discover" /\ pc' = "discover") =>
          (field' = 1 /\ offset' = 0)]_vars
  /\ [][(prog = "cp" /\ pc = "discover") =>
          IF lastFetch' = "page"
          THEN pc' = "discover" /\ field' = field /\ offset' = offset + 50
          ELSE /\ lastFetch' \in {"empty", "failed"}
               /\ IF field = 1
                  THEN pc' = "discover" /\ field' = 2 /\ offset' = 0
                  ELSE pc' = "select"]_vars
  /\ (pc = "discover") ~> (pc = "select")

\* C19 witness: the second strategy was served non-empty pages at offsets 0
\* and 50 and is about to request offset 100.
C19_Witness ==
  /\ prog = "cp"
  /\ pc = "discover"
  /\ field = 2
  /\ offset = 100
  /\ lastFetch = "page"

====
